---- MODULE Spec2Model ----
(***************************************************************************)
(* A model of server.js: the Express request pipeline (validation ->       *)
(* persistence -> notification -> response) over the SQLite store and the  *)
(* nodemailer transport.                                                    *)
(*                                                                          *)
(* JavaScript runs one callback at a time: `running` names the request      *)
(* whose db.run callback holds the thread (0 when the thread is free).      *)
(* The SQLite engine, the mail transport and the wall clock act outside     *)
(* that thread.                                                             *)
(***************************************************************************)
EXTENDS Integers, Sequences, FiniteSets, TLC

VARIABLES
    now,                \* wall clock in whole seconds (CURRENT_TIMESTAMP)
    reqs,               \* the POST requests received, in arrival order
    running,            \* request whose db.run callback is executing, or 0
    consultations,      \* table consultations, row i has id i
    email_subscribers,  \* table email_subscribers, row i has id i
    mails,              \* messages handed to transporter.sendMail, in order
    listing,            \* last response of GET /api/admin/consultations
    phone_numbers,      \* table phone_numbers
    search              \* last response of GET /api/numbers/search

vars == <<now, reqs, running, consultations, email_subscribers, mails,
          listing, phone_numbers, search>>

----------------------------------------------------------------------------
(* Bounds of the model *)

MaxRequests == 2
MaxTime == 1
MaxValidated == 1
MaxNumbers == 12
MaxSold == 2

----------------------------------------------------------------------------
(* JavaScript values *)

Undefined == "<undefined>"
Null == "<null>"
\* JavaScript truthiness of a request value: undefined, null and '' are falsy.
Truthy(v) == v \notin {Undefined, Null, ""}

\* a || b
OrElse(a, b) == IF Truthy(a) THEN a ELSE b

\* { x = d } destructuring default: applies only to undefined.
Default(v, d) == IF v = Undefined THEN d ELSE v

\* parseInt over the decimal query strings the model submits.
ParseInt(v) ==
    CASE v = "0" -> 0
      [] v = "1" -> 1
      [] v = "2" -> 2
      [] v = "3" -> 3
      [] v = "10" -> 10
      [] v = "50" -> 50

NoResponse == [status |-> 0]

----------------------------------------------------------------------------
(* Validation layer *)

\* notEmpty(): the value is present and not the empty string.
NotEmpty(v) == v \notin {Undefined, Null, ""}

\* isEmail() over the addresses the model submits.
IsEmail(v) == v \in {"a@example.com", "b@example.com"}

Check(ok, param, msg) == IF ok THEN <<>> ELSE <<[param |-> param, msg |-> msg]>>

\* Faulty variant: validation that reports the first failure only.
ConsultationValidationFirstOnly(body) ==
    LET all == Check(NotEmpty(body.relationshipType), "relationshipType", "Relationship type is required")
               \o Check(NotEmpty(body.names), "names", "Names are required")
               \o Check(IsEmail(body.email), "email", "Valid email is required")
               \o Check(NotEmpty(body.phone), "phone", "Phone number is required")
               \o Check(NotEmpty(body.budget), "budget", "Budget selection is required")
    IN IF all = <<>> THEN <<>> ELSE <<Head(all)>>

\* Every chain of consultationValidation runs; validationResult collects the
\* failures of all of them in chain order.
ConsultationValidation(body) ==
    Check(NotEmpty(body.relationshipType), "relationshipType", "Relationship type is required")
    \o Check(NotEmpty(body.names), "names", "Names are required")
    \o Check(IsEmail(body.email), "email", "Valid email is required")
    \o Check(NotEmpty(body.phone), "phone", "Phone number is required")
    \o Check(NotEmpty(body.budget), "budget", "Budget selection is required")

NewsletterValidation(body) ==
    Check(IsEmail(body.email), "email", "Valid email is required")

----------------------------------------------------------------------------
(* Responses *)

ValidationFailure(errors) ==
    [status |-> 400, success |-> FALSE, errors |-> errors]

DatabaseError ==
    [status |-> 500, success |-> FALSE, message |-> "Database error"]

ConsultationSuccess(consultationId) ==
    [status |-> 200, success |-> TRUE,
     message |-> "Consultation request submitted successfully",
     consultationId |-> consultationId]

NewsletterSuccess ==
    [status |-> 200, success |-> TRUE,
     message |-> "Successfully subscribed to newsletter"]

----------------------------------------------------------------------------
(* Persistence store *)

\* Faulty variant: the optional fields are bound as submitted, without
\* `|| null` and `|| ''`.
ConsultationRowNoDefaults(id, body, t) ==
    [id |-> id,
     relationship_type |-> body.relationshipType,
     names |-> body.names,
     email |-> body.email,
     phone |-> body.phone,
     anniversary |-> body.anniversary,
     preferences |-> body.preferences,
     budget |-> body.budget,
     status |-> "pending",
     created_at |-> t,
     updated_at |-> t]

\* INSERT INTO consultations (...) VALUES (?, ?, ?, ?, ?, ?, ?) with the
\* parameter array of the handler; id, status and the timestamps take their
\* schema defaults.
ConsultationRow(id, body, t) ==
    [id |-> id,
     relationship_type |-> body.relationshipType,
     names |-> body.names,
     email |-> body.email,
     phone |-> body.phone,
     anniversary |-> OrElse(body.anniversary, Null),
     preferences |-> OrElse(body.preferences, ""),
     budget |-> body.budget,
     status |-> "pending",
     created_at |-> t,
     updated_at |-> t]

SubscriberRow(id, email, source, t) ==
    [id |-> id, email |-> email, source |-> source, status |-> "active",
     created_at |-> t]

\* Faulty variant: an insert that is not stopped by an existing email.
InsertAlways(table, email, source, t) ==
    Append(table, SubscriberRow(Len(table) + 1, email, source, t))

\* INSERT OR IGNORE under UNIQUE(email): a conflicting row is dropped silently.
InsertOrIgnore(table, email, source, t) ==
    IF \E i \in 1..Len(table) : table[i].email = email
    THEN table
    ELSE Append(table, SubscriberRow(Len(table) + 1, email, source, t))

----------------------------------------------------------------------------
(* Notification dispatcher: each send function builds its message and calls *)
(* transporter.sendMail before its first await.                             *)

Mail(kind, r, to) == [kind |-> kind, req |-> r, to |-> to, state |-> "pending"]

SendConsultationConfirmation(r, email) == Append(mails, Mail("confirmation", r, email))

SendAdminNotification(r) == Append(mails, Mail("admin-alert", r, "admin@connectpair.co.uk"))

SendWelcomeEmail(r, email) == Append(mails, Mail("welcome", r, email))

----------------------------------------------------------------------------
(* Inputs *)

ConsultationBody(rt, n, e, p, a, pr, b) ==
    [relationshipType |-> rt, names |-> n, email |-> e, phone |-> p,
     anniversary |-> a, preferences |-> pr, budget |-> b]

\* The submissions of the pipeline specification.
ConsultationBodies ==
    { ConsultationBody("couple", "Alice & Bob", "a@example.com", "555-0100",
                       Undefined, Undefined, "premium"),
      ConsultationBody("family", "Carol & Dan", "b@example.com", "555-0101",
                       "2020-06-01", "sevens", "basic"),
      ConsultationBody("couple", "", "not-an-email", "555-0100",
                       Undefined, "", Undefined) }

\* Every combination of present, empty and missing fields.
AllConsultationBodies ==
    { ConsultationBody(rt, n, e, p, a, pr, b) :
        rt \in {Undefined, "couple"},
        n \in {Undefined, "", "Alice & Bob"},
        e \in {Undefined, "not-an-email", "a@example.com"},
        p \in {Undefined, "555-0100"},
        a \in {Undefined, "", "2020-06-01"},
        pr \in {Undefined, "", "sevens"},
        b \in {Undefined, "premium"} }

NewsletterBodies ==
    { [email |-> "a@example.com", source |-> Undefined],
      [email |-> "b@example.com", source |-> "download"],
      [email |-> "not-an-email", source |-> Undefined] }

----------------------------------------------------------------------------
(* Initial state: empty tables, nothing received. *)

InitPipeline ==
    /\ now = 0
    /\ reqs = <<>>
    /\ running = 0
    /\ consultations = <<>>
    /\ email_subscribers = <<>>
    /\ mails = <<>>
    /\ listing = NoResponse
    /\ search = NoResponse

Init ==
    /\ InitPipeline
    /\ phone_numbers = <<>>

----------------------------------------------------------------------------
(* POST /api/consultation *)

Request(route, body, pc, res) ==
    [route |-> route, body |-> body, pc |-> pc, err |-> FALSE, lastID |-> 0,
     res |-> res]

\* The route handler: validate, then either answer 400 or queue the insert.
PostConsultation(body) ==
    /\ running = 0
    /\ LET errors == ConsultationValidation(body) IN
       reqs' = Append(reqs,
                 IF errors # <<>>
                 THEN Request("consultation", body, "done", ValidationFailure(errors))
                 ELSE Request("consultation", body, "queued", NoResponse))
    /\ UNCHANGED <<now, running, consultations, email_subscribers, mails,
                   listing, phone_numbers, search>>

\* SQLite executes the queued INSERT: the row is appended with the next id.
ConsultationInsert(r) ==
    /\ reqs[r].route = "consultation"
    /\ reqs[r].pc = "queued"
    /\ consultations' = Append(consultations,
                          ConsultationRow(Len(consultations) + 1, reqs[r].body, now))
    /\ reqs' = [reqs EXCEPT ![r].pc = "inserted", ![r].lastID = Len(consultations) + 1]
    /\ UNCHANGED <<now, running, email_subscribers, mails, listing,
                   phone_numbers, search>>

\* SQLite fails the queued statement: nothing is written.
InsertFails(r) ==
    /\ reqs[r].pc = "queued"
    /\ reqs' = [reqs EXCEPT ![r].pc = "dberror", ![r].err = TRUE]
    /\ UNCHANGED <<now, running, consultations, email_subscribers, mails,
                   listing, phone_numbers, search>>

\* Faulty variant: the err branch answers 500 without returning, so the
\* notification of the route is still sent.
InsertErrorCallbackFallsThrough(r) ==
    /\ running = 0
    /\ reqs[r].pc = "dberror"
    /\ reqs' = [reqs EXCEPT ![r].pc = "done", ![r].res = DatabaseError]
    /\ mails' = IF reqs[r].route = "consultation"
                THEN SendConsultationConfirmation(r, reqs[r].body.email)
                ELSE SendWelcomeEmail(r, reqs[r].body.email)
    /\ UNCHANGED <<now, running, consultations, email_subscribers,
                   listing, phone_numbers, search>>

\* db.run callback with err set: 500 and return.
InsertErrorCallback(r) ==
    /\ running = 0
    /\ reqs[r].pc = "dberror"
    /\ reqs' = [reqs EXCEPT ![r].pc = "done", ![r].res = DatabaseError]
    /\ UNCHANGED <<now, running, consultations, email_subscribers, mails,
                   listing, phone_numbers, search>>

\* db.run callback, first statement after the err test.
ConsultationCallbackConfirm(r) ==
    /\ running = 0
    /\ reqs[r].route = "consultation"
    /\ reqs[r].pc = "inserted"
    /\ running' = r
    /\ mails' = SendConsultationConfirmation(r, reqs[r].body.email)
    /\ reqs' = [reqs EXCEPT ![r].pc = "notify-admin"]
    /\ UNCHANGED <<now, consultations, email_subscribers, listing,
                   phone_numbers, search>>

\* Faulty variant: the callback awaits the notification, giving up the
\* thread before it has answered.
ConsultationCallbackAdminAwaits(r) ==
    /\ running = r
    /\ reqs[r].pc = "notify-admin"
    /\ mails' = SendAdminNotification(r)
    /\ reqs' = [reqs EXCEPT ![r].pc = "respond"]
    /\ running' = 0
    /\ UNCHANGED <<now, consultations, email_subscribers, listing,
                   phone_numbers, search>>

\* db.run callback, second statement.
ConsultationCallbackAdmin(r) ==
    /\ running = r
    /\ reqs[r].pc = "notify-admin"
    /\ mails' = SendAdminNotification(r)
    /\ reqs' = [reqs EXCEPT ![r].pc = "respond"]
    /\ UNCHANGED <<now, running, consultations, email_subscribers, listing,
                   phone_numbers, search>>

\* db.run callback, last statement: res.json.
ConsultationCallbackRespond(r) ==
    /\ running = r
    /\ reqs[r].route = "consultation"
    /\ reqs[r].pc = "respond"
    /\ reqs' = [reqs EXCEPT ![r].pc = "done",
                            ![r].res = ConsultationSuccess(reqs[r].lastID)]
    /\ running' = 0
    /\ UNCHANGED <<now, consultations, email_subscribers, mails, listing,
                   phone_numbers, search>>

----------------------------------------------------------------------------
(* POST /api/newsletter *)

NewsletterParams(body) ==
    [email |-> body.email, source |-> Default(body.source, "newsletter")]

PostNewsletter(body) ==
    /\ running = 0
    /\ LET errors == NewsletterValidation(body) IN
       reqs' = Append(reqs,
                 IF errors # <<>>
                 THEN Request("newsletter", body, "done", ValidationFailure(errors))
                 ELSE Request("newsletter", body, "queued", NoResponse))
    /\ UNCHANGED <<now, running, consultations, email_subscribers, mails,
                   listing, phone_numbers, search>>

\* SQLite executes the queued INSERT OR IGNORE.
NewsletterInsert(r) ==
    /\ reqs[r].route = "newsletter"
    /\ reqs[r].pc = "queued"
    /\ LET p == NewsletterParams(reqs[r].body) IN
       email_subscribers' = InsertOrIgnore(email_subscribers, p.email, p.source, now)
    /\ reqs' = [reqs EXCEPT ![r].pc = "inserted"]
    /\ UNCHANGED <<now, running, consultations, mails, listing,
                   phone_numbers, search>>

\* Faulty variant: the welcome is sent only when none has gone to the email
\* before, as if it followed the inserted row.
NewsletterCallbackWelcomeOncePerEmail(r) ==
    /\ running = 0
    /\ reqs[r].route = "newsletter"
    /\ reqs[r].pc = "inserted"
    /\ running' = r
    /\ mails' = IF \E m \in 1..Len(mails) :
                      mails[m].kind = "welcome" /\ mails[m].to = reqs[r].body.email
                THEN mails
                ELSE SendWelcomeEmail(r, reqs[r].body.email)
    /\ reqs' = [reqs EXCEPT ![r].pc = "respond"]
    /\ UNCHANGED <<now, consultations, email_subscribers, listing,
                   phone_numbers, search>>

\* db.run callback, first statement after the err test.
NewsletterCallbackWelcome(r) ==
    /\ running = 0
    /\ reqs[r].route = "newsletter"
    /\ reqs[r].pc = "inserted"
    /\ running' = r
    /\ mails' = SendWelcomeEmail(r, reqs[r].body.email)
    /\ reqs' = [reqs EXCEPT ![r].pc = "respond"]
    /\ UNCHANGED <<now, consultations, email_subscribers, listing,
                   phone_numbers, search>>

NewsletterCallbackRespond(r) ==
    /\ running = r
    /\ reqs[r].route = "newsletter"
    /\ reqs[r].pc = "respond"
    /\ reqs' = [reqs EXCEPT ![r].pc = "done", ![r].res = NewsletterSuccess]
    /\ running' = 0
    /\ UNCHANGED <<now, consultations, email_subscribers, mails, listing,
                   phone_numbers, search>>

----------------------------------------------------------------------------
(* Mail transport: the promise of sendMail settles after the callback that  *)
(* made the call has returned; the send function then logs and ends.        *)

\* await resolves: console.log.
MailDelivered(m) ==
    /\ running = 0
    /\ mails[m].state = "pending"
    /\ mails' = [mails EXCEPT ![m].state = "sent"]
    /\ UNCHANGED <<now, reqs, running, consultations, email_subscribers,
                   listing, phone_numbers, search>>

\* Faulty variant: a rejected send reaches the response of its request.
MailFailedSurfaces(m) ==
    /\ running = 0
    /\ mails[m].state = "pending"
    /\ mails' = [mails EXCEPT ![m].state = "failed"]
    /\ reqs' = [reqs EXCEPT ![mails[m].req].res =
                   [status |-> 500, success |-> FALSE, message |-> "Internal server error"]]
    /\ UNCHANGED <<now, running, consultations, email_subscribers,
                   listing, phone_numbers, search>>

\* Faulty variant: a rejected send is handed to the transport again.
MailFailedRetries(m) ==
    /\ running = 0
    /\ mails[m].state = "pending"
    /\ mails' = Append([mails EXCEPT ![m].state = "failed"],
                       Mail(mails[m].kind, mails[m].req, mails[m].to))
    /\ UNCHANGED <<now, reqs, running, consultations, email_subscribers,
                   listing, phone_numbers, search>>

\* await rejects: caught, console.error.
MailFailed(m) ==
    /\ running = 0
    /\ mails[m].state = "pending"
    /\ mails' = [mails EXCEPT ![m].state = "failed"]
    /\ UNCHANGED <<now, reqs, running, consultations, email_subscribers,
                   listing, phone_numbers, search>>

----------------------------------------------------------------------------
(* GET /api/admin/consultations *)

DefaultListLimit == 50
DefaultOffset == 0

\* Rows i+1 .. i+n of a result (LIMIT n OFFSET i).
LimitOffset(rows, n, i) ==
    SubSeq(rows, i + 1, IF i + n < Len(rows) THEN i + n ELSE Len(rows))

\* ORDER BY created_at DESC: every arrangement of the rows that is
\* non-increasing in created_at; rows of equal created_at come in an order
\* the engine does not fix.
OrderByCreatedAtDesc(rows) ==
    { [i \in 1..Len(rows) |-> rows[p[i]]] :
        p \in { q \in [1..Len(rows) -> 1..Len(rows)] :
                  /\ \A i, j \in 1..Len(rows) : i # j => q[i] # q[j]
                  /\ \A i, j \in 1..Len(rows) :
                        i < j => rows[q[i]].created_at >= rows[q[j]].created_at } }

\* WHERE status = ? when a status is given.
WhereStatus(rows, status) ==
    IF Truthy(status) THEN SelectSeq(rows, LAMBDA row : row.status = status)
    ELSE rows

ListLimit(q) == IF q.limit = Undefined THEN DefaultListLimit ELSE ParseInt(q.limit)

ListOffset(q) == IF q.offset = Undefined THEN DefaultOffset ELSE ParseInt(q.offset)

\* The results the engine may return for the listing query.
ListingResults(q) ==
    { LimitOffset(sorted, ListLimit(q), ListOffset(q)) :
        sorted \in OrderByCreatedAtDesc(WhereStatus(consultations, q.status)) }

ListingQueries ==
    { [status |-> Undefined, limit |-> "1", offset |-> "0"],
      [status |-> Undefined, limit |-> Undefined, offset |-> Undefined],
      [status |-> "pending", limit |-> "1", offset |-> "1"],
      [status |-> "contacted", limit |-> "2", offset |-> Undefined] }

\* Handler, query and db.all callback: the store is read at one instant.
\* `seen` records how many consultations the store held at that instant.
AdminConsultations(q) ==
    /\ running = 0
    /\ \E rows \in ListingResults(q) :
          listing' = [status |-> 200, success |-> TRUE, query |-> q,
                      consultations |-> rows, seen |-> Len(consultations)]
    /\ UNCHANGED <<now, reqs, running, consultations, email_subscribers,
                   mails, phone_numbers, search>>

AdminConsultationsFails(q) ==
    /\ running = 0
    /\ listing' = [status |-> 500, success |-> FALSE, query |-> q,
                   message |-> "Database error", seen |-> Len(consultations)]
    /\ UNCHANGED <<now, reqs, running, consultations, email_subscribers,
                   mails, phone_numbers, search>>

----------------------------------------------------------------------------
(* Clock *)

Tick ==
    /\ now < MaxTime
    /\ now' = now + 1
    /\ UNCHANGED <<reqs, running, consultations, email_subscribers, mails,
                   listing, phone_numbers, search>>

----------------------------------------------------------------------------
(* GET /api/numbers/search *)

DefaultSearchLimit == 10

\* Query strings and numbers are sequences of characters here, so that LIKE
\* can be computed; an absent query parameter is Missing.
Missing == <<Undefined>>

TruthyChars(s) == s # Missing /\ s # <<>>

\* SQLite's LIKE folds the case of ASCII letters.
Fold(c) == IF c = "A" THEN "a" ELSE c

\* number LIKE pat: % matches any run of characters, _ any one character,
\* anything else itself up to case.
RECURSIVE Like(_, _)
Like(pat, s) ==
    IF pat = <<>> THEN s = <<>>
    ELSE IF Head(pat) = "%"
         THEN Like(Tail(pat), s) \/ (s # <<>> /\ Like(pat, Tail(s)))
         ELSE /\ s # <<>>
              /\ (Head(pat) = "_" \/ Fold(Head(pat)) = Fold(Head(s)))
              /\ Like(Tail(pat), Tail(s))

\* Faulty variant: the WHERE clause without its status restriction.
SearchMatchesAnyStatus(q) ==
    { i \in 1..Len(phone_numbers) :
        /\ (Truthy(q.pattern) => phone_numbers[i].pattern_type = q.pattern)
        /\ (TruthyChars(q.area_code) =>
              Like(q.area_code \o <<"%">>, phone_numbers[i].number)) }

\* The WHERE clause the handler builds for a query.
SearchMatches(q) ==
    { i \in 1..Len(phone_numbers) :
        /\ phone_numbers[i].status = "available"
        /\ (Truthy(q.pattern) => phone_numbers[i].pattern_type = q.pattern)
        /\ (TruthyChars(q.area_code) =>
              Like(q.area_code \o <<"%">>, phone_numbers[i].number)) }

SearchLimit(q) == IF q.limit = Undefined THEN DefaultSearchLimit ELSE ParseInt(q.limit)

\* The rows of a set of ids, in id order.
RECURSIVE RowsOf(_)
RowsOf(ids) ==
    IF ids = {} THEN <<>>
    ELSE LET m == CHOOSE i \in ids : \A j \in ids : i <= j
         IN <<phone_numbers[m]>> \o RowsOf(ids \ {m})

\* The subsets of S that have k elements.
RECURSIVE KSubsets(_, _)
KSubsets(S, k) ==
    IF k = 0 THEN {{}}
    ELSE IF Cardinality(S) <= k THEN {S}
    ELSE LET x == CHOOSE y \in S : TRUE
         IN KSubsets(S \ {x}, k) \cup { T \cup {x} : T \in KSubsets(S \ {x}, k - 1) }

\* LIMIT n without ORDER BY: any n of the matching rows.
SearchResults(q) ==
    { RowsOf(ids) : ids \in KSubsets(SearchMatches(q), SearchLimit(q)) }

SearchQueries ==
    [pattern : {Undefined, "mirror"},
     area_code : {Missing, <<>>, <<"0">>, <<"0", "1">>, <<"a">>, <<"_", "1">>, <<"%", "1">>},
     limit : {Undefined, "1"}]

NumberSearch(q) ==
    /\ running = 0
    /\ \E rows \in SearchResults(q) :
          search' = [status |-> 200, success |-> TRUE, query |-> q, numbers |-> rows]
    /\ UNCHANGED <<now, reqs, running, consultations, email_subscribers,
                   mails, listing, phone_numbers>>

NumberSearchFails(q) ==
    /\ running = 0
    /\ search' = [status |-> 500, success |-> FALSE, query |-> q,
                  message |-> "Database error"]
    /\ UNCHANGED <<now, reqs, running, consultations, email_subscribers,
                   mails, listing, phone_numbers>>

\* The contents of phone_numbers are written outside this server: the first
\* k numbers of a fixed enumeration, some of them no longer available.
NumberChars == <<"0", "1", "a", "A">>

NumberAt(i) == <<NumberChars[((i - 1) \div 4) + 1], NumberChars[((i - 1) % 4) + 1]>>

PhoneRow(i, sold) ==
    [id |-> i, number |-> NumberAt(i),
     pattern_type |-> IF i % 3 = 0 THEN "sequential" ELSE "mirror",
     status |-> IF i \in sold THEN "sold" ELSE "available"]

PhoneTables ==
    { [i \in 1..k |-> PhoneRow(i, sold)] : k \in 0..MaxNumbers, sold \in SUBSET (1..MaxSold) }

InitSearch ==
    /\ InitPipeline
    /\ phone_numbers \in PhoneTables

----------------------------------------------------------------------------
(* Specifications *)

\* The store executing a queued insert, and the db.run callbacks.
ConsultationPipeline ==
    \/ \E r \in 1..Len(reqs) : ConsultationInsert(r)
    \/ \E r \in 1..Len(reqs) : InsertFails(r)
    \/ \E r \in 1..Len(reqs) : InsertErrorCallback(r)
    \/ \E r \in 1..Len(reqs) : ConsultationCallbackConfirm(r)
    \/ \E r \in 1..Len(reqs) : ConsultationCallbackAdmin(r)
    \/ \E r \in 1..Len(reqs) : ConsultationCallbackRespond(r)

NewsletterPipeline ==
    \/ \E r \in 1..Len(reqs) : NewsletterInsert(r)
    \/ \E r \in 1..Len(reqs) : NewsletterCallbackWelcome(r)
    \/ \E r \in 1..Len(reqs) : NewsletterCallbackRespond(r)

Transport ==
    \/ \E m \in 1..Len(mails) : MailDelivered(m)
    \/ \E m \in 1..Len(mails) : MailFailed(m)

\* The two submission routes, the store and the transport.
Next ==
    \/ \E body \in ConsultationBodies :
          Len(reqs) < MaxRequests /\ PostConsultation(body)
    \/ \E body \in NewsletterBodies :
          Len(reqs) < MaxRequests /\ PostNewsletter(body)
    \/ ConsultationPipeline
    \/ NewsletterPipeline
    \/ Transport

Spec == Init /\ [][Next]_vars

\* Consultation submissions with every combination of fields.
NextValidation ==
    \/ \E body \in AllConsultationBodies :
          Len(reqs) < MaxValidated /\ PostConsultation(body)
    \/ ConsultationPipeline
    \/ Transport

SpecValidation == Init /\ [][NextValidation]_vars

\* Consultation submissions over a running clock, and the admin listing.
NextListing ==
    \/ \E body \in ConsultationBodies :
          Len(reqs) < MaxRequests /\ PostConsultation(body)
    \/ ConsultationPipeline
    \/ \E q \in ListingQueries : AdminConsultations(q)
    \/ \E q \in ListingQueries : AdminConsultationsFails(q)
    \/ Tick

SpecListing == Init /\ [][NextListing]_vars

\* The number search over a populated phone_numbers table.
NextSearch ==
    \/ \E q \in SearchQueries : NumberSearch(q)
    \/ \E q \in SearchQueries : NumberSearchFails(q)

SpecSearch == InitSearch /\ [][NextSearch]_vars

----------------------------------------------------------------------------
(* Properties *)

Reqs == 1..Len(reqs)

Responded(r) == reqs[r].res.status # 0

\* The insert of request r was executed without a storage error.
InsertSucceeded(r) ==
    reqs[r].pc \in {"inserted", "notify-admin", "respond", "done"} /\ ~reqs[r].err
    /\ reqs[r].res.status # 400

MailsOf(r, kind) == { m \in 1..Len(mails) : mails[m].req = r /\ mails[m].kind = kind }

RequiredFields == {"relationshipType", "names", "email", "phone", "budget"}

\* The required fields of a consultation body that are missing or invalid.
Violating(body) ==
    { f \in RequiredFields :
        \/ f = "relationshipType" /\ body.relationshipType \in {Undefined, ""}
        \/ f = "names" /\ body.names \in {Undefined, ""}
        \/ f = "email" /\ body.email \in {Undefined, "", "not-an-email"}
        \/ f = "phone" /\ body.phone \in {Undefined, ""}
        \/ f = "budget" /\ body.budget \in {Undefined, ""} }

IsConsultation(r) == reqs[r].route = "consultation"

IsNewsletter(r) == reqs[r].route = "newsletter"

\* C1: a consultation submission that passes validation and whose insert
\* succeeds is answered with success and a positive integer consultationId,
\* and the store holds the row of that id with the submitted relationship
\* type, names, email, phone and budget, anniversary null when omitted,
\* preferences '' when omitted, and status 'pending'.
C1_ValidSubmissionStored ==
    \A r \in Reqs :
        (IsConsultation(r) /\ Violating(reqs[r].body) = {} /\ InsertSucceeded(r)
           /\ Responded(r)) =>
        /\ reqs[r].res.status = 200
        /\ reqs[r].res.success = TRUE
        /\ reqs[r].res.consultationId \in 1..Len(consultations)
        /\ LET row == consultations[reqs[r].res.consultationId]
               body == reqs[r].body
           IN /\ row.id = reqs[r].res.consultationId
              /\ row.relationship_type = body.relationshipType
              /\ row.names = body.names
              /\ row.email = body.email
              /\ row.phone = body.phone
              /\ row.budget = body.budget
              /\ (body.anniversary = Undefined => row.anniversary = Null)
              /\ (body.preferences = Undefined => row.preferences = "")
              /\ row.status = "pending"

\* Two submissions are stored; the second, which omits anniversary and
\* preferences, has been answered with consultationId 2.
C1_Witness ==
    \E r \in Reqs :
        /\ IsConsultation(r) /\ Responded(r) /\ reqs[r].res.status = 200
        /\ reqs[r].res.consultationId = 2
        /\ reqs[r].body.anniversary = Undefined
        /\ reqs[r].body.preferences = Undefined
        /\ consultations[2].anniversary = Null

\* C2: a consultation submission with a missing or invalid required field is
\* answered 400 with an error entry for every violating field, creates no
\* consultation row and hands nothing to the transport.
C2_InvalidSubmissionRejected ==
    /\ \A r \in Reqs :
          (IsConsultation(r) /\ Violating(reqs[r].body) # {}) =>
          /\ reqs[r].pc = "done"
          /\ reqs[r].res.status = 400
          /\ reqs[r].res.success = FALSE
          /\ { reqs[r].res.errors[i].param : i \in 1..Len(reqs[r].res.errors) }
                = Violating(reqs[r].body)
          /\ reqs[r].lastID = 0
          /\ \A m \in 1..Len(mails) : mails[m].req # r
    /\ Len(consultations) =
          Cardinality({ r \in Reqs : IsConsultation(r) /\ Violating(reqs[r].body) = {}
                                      /\ InsertSucceeded(r) })

\* A submission violating all five rules has been answered with five errors.
C2_Witness ==
    \E r \in Reqs :
        /\ IsConsultation(r)
        /\ Violating(reqs[r].body) = RequiredFields
        /\ reqs[r].res.status = 400
        /\ Len(reqs[r].res.errors) = 5
        /\ consultations = <<>>

\* C3: when the insert of a consultation submission or a newsletter signup
\* fails, the request is answered 500 and no notification is handed to the
\* transport for it.
C3_InsertFailureNoNotification ==
    \A r \in Reqs :
        reqs[r].err =>
        /\ \A m \in 1..Len(mails) : mails[m].req # r
        /\ (Responded(r) => reqs[r].res.status = 500 /\ reqs[r].res.success = FALSE)
        /\ reqs[r].pc \in {"dberror", "done"}
        /\ (reqs[r].pc = "done" => Responded(r))

\* A consultation and a newsletter signup have both failed in the store and
\* been answered 500.
C3_Witness ==
    \E r1, r2 \in Reqs :
        /\ IsConsultation(r1) /\ reqs[r1].err /\ reqs[r1].res.status = 500
        /\ IsNewsletter(r2) /\ reqs[r2].err /\ reqs[r2].res.status = 500

SubscriberRows(email) ==
    { i \in 1..Len(email_subscribers) : email_subscribers[i].email = email }

\* C4 as stated: every answered signup of a valid email is a success and
\* leaves exactly one subscriber row for the email.
C4_AlwaysSuccess ==
    \A r \in Reqs :
        (IsNewsletter(r) /\ IsEmail(reqs[r].body.email) /\ Responded(r)) =>
        /\ reqs[r].res.status = 200
        /\ Cardinality(SubscriberRows(reqs[r].body.email)) = 1

\* C4 (amended): every signup of a valid email whose insert does not fail is
\* answered with success, however often the email is submitted, and leaves
\* exactly one subscriber row for the email; no email ever has two rows.
C4_IdempotentSignup ==
    /\ \A r \in Reqs :
          (IsNewsletter(r) /\ IsEmail(reqs[r].body.email) /\ InsertSucceeded(r)) =>
          /\ Cardinality(SubscriberRows(reqs[r].body.email)) = 1
          /\ (Responded(r) => reqs[r].res = NewsletterSuccess)
    /\ \A i, j \in 1..Len(email_subscribers) :
          email_subscribers[i].email = email_subscribers[j].email => i = j

\* The same email has been submitted twice, both signups were answered with
\* success, and the table holds one row.
C4_Witness ==
    \E r1, r2 \in Reqs :
        /\ r1 # r2
        /\ IsNewsletter(r1) /\ IsNewsletter(r2)
        /\ reqs[r1].body.email = reqs[r2].body.email
        /\ reqs[r1].res = NewsletterSuccess /\ reqs[r2].res = NewsletterSuccess
        /\ Len(email_subscribers) = 1

ConsultationKinds == {"confirmation", "admin-alert"}

SuccessOf(r) ==
    IF IsConsultation(r) THEN ConsultationSuccess(reqs[r].lastID) ELSE NewsletterSuccess

\* C6: once the row of a submission or signup is persisted, the response is
\* the success response whatever the notifications do: a step in which a
\* notification is delivered or fails changes no request, response or row,
\* a response that was sent never changes, and every answered request whose
\* insert succeeded holds the success response.
C6_NotificationOutcomeInvisible ==
    [][ /\ (\E m \in 1..Len(mails) :
                mails[m].state = "pending" /\ mails'[m].state # "pending")
           => (reqs' = reqs /\ consultations' = consultations
               /\ email_subscribers' = email_subscribers)
        /\ \A r \in Reqs : Responded(r) => reqs'[r].res = reqs[r].res
        /\ \A r \in Reqs :
              (InsertSucceeded(r) /\ reqs'[r].res.status # 0) =>
              reqs'[r].res = SuccessOf(r)
      ]_vars

\* A consultation whose two notifications have both failed holds its success
\* response.
C6_Witness ==
    \E r \in Reqs :
        /\ IsConsultation(r)
        /\ reqs[r].res = ConsultationSuccess(reqs[r].lastID)
        /\ \A k \in ConsultationKinds :
              \E m \in MailsOf(r, k) : mails[m].state = "failed"

\* C7: the listing with limit=1, offset=0 and no status filter, on a store
\* of more than one consultation, returns exactly the row created last.
C7_ListingReturnsMostRecent ==
    (/\ listing.status = 200
     /\ listing.query = [status |-> Undefined, limit |-> "1", offset |-> "0"]
     /\ listing.seen > 1)
    => listing.consultations = <<consultations[listing.seen]>>

IsPrefix(p, s) == Len(p) <= Len(s) /\ SubSeq(s, 1, Len(p)) = p

\* C8: every row returned for a search with an area_code has a number that
\* starts with that area_code as a literal prefix.
C8_AreaCodeLiteralPrefix ==
    (search.status = 200 /\ TruthyChars(search.query.area_code)) =>
    \A i \in 1..Len(search.numbers) :
        IsPrefix(search.query.area_code, search.numbers[i].number)

\* C9: every row a search returns has status 'available', and a search with
\* no filter and no limit returns at most 10 rows.
C9_AvailableOnlyAtMostTen ==
    search.status = 200 =>
    /\ \A i \in 1..Len(search.numbers) : search.numbers[i].status = "available"
    /\ (/\ ~Truthy(search.query.pattern)
        /\ ~TruthyChars(search.query.area_code)
        /\ search.query.limit = Undefined)
       => Len(search.numbers) <= 10

\* The table holds a sold number and more than 10 available ones, and the
\* search without filter or limit has returned 10 rows.
C9_Witness ==
    /\ search.status = 200
    /\ search.query = [pattern |-> Undefined, area_code |-> Missing, limit |-> Undefined]
    /\ Len(search.numbers) = 10
    /\ \E i \in 1..Len(phone_numbers) : phone_numbers[i].status = "sold"
    /\ Cardinality({ i \in 1..Len(phone_numbers) :
                       phone_numbers[i].status = "available" }) > 10

\* C10: a consultation whose insert succeeded has exactly one confirmation
\* and exactly one admin alert handed to the transport once its callback has
\* answered, never more than one of either at any time (a failed delivery is
\* not attempted again), and the admin alert is handed over whatever becomes
\* of the confirmation.
C10_OneAttemptEach ==
    \A r \in Reqs :
        IsConsultation(r) =>
        /\ \A k \in ConsultationKinds : Cardinality(MailsOf(r, k)) <= 1
        /\ MailsOf(r, "welcome") = {}
        /\ (reqs[r].res.status = 200 =>
              \A k \in ConsultationKinds : Cardinality(MailsOf(r, k)) = 1)
        /\ (~InsertSucceeded(r) => \A k \in ConsultationKinds : MailsOf(r, k) = {})

\* The confirmation of an answered submission has failed; its admin alert
\* was handed over and delivered, and nothing was sent a second time.
C10_Witness ==
    \E r \in Reqs :
        /\ IsConsultation(r) /\ reqs[r].res.status = 200
        /\ \E m \in MailsOf(r, "confirmation") : mails[m].state = "failed"
        /\ \E m \in MailsOf(r, "admin-alert") : mails[m].state = "sent"
        /\ Len(mails) = 2

WelcomeMails == { m \in 1..Len(mails) : mails[m].kind = "welcome" }

NewsletterSuccesses == { r \in Reqs : IsNewsletter(r) /\ reqs[r].res = NewsletterSuccess }

\* C11: the welcome notifications handed to the transport are as many as the
\* newsletter success responses, whatever the number of subscriber rows:
\* whenever no callback is running the two numbers are equal (inside the
\* callback of a signup the welcome of that signup is one ahead of its
\* response), every answered signup has exactly one welcome, addressed to
\* its email, also when the email was subscribed already, and the rows never
\* outnumber the signups whose insert ran.
C11_WelcomePerSuccess ==
    /\ Cardinality(WelcomeMails) =
          Cardinality(NewsletterSuccesses)
          + (IF running # 0 /\ IsNewsletter(running) THEN 1 ELSE 0)
    /\ \A r \in NewsletterSuccesses :
          /\ Cardinality(MailsOf(r, "welcome")) = 1
          /\ \A m \in MailsOf(r, "welcome") : mails[m].to = reqs[r].body.email
    /\ \A m \in WelcomeMails : IsNewsletter(mails[m].req)
    /\ Len(email_subscribers) <=
          Cardinality({ r \in Reqs : IsNewsletter(r) /\ InsertSucceeded(r) })

\* The same email was signed up twice: one subscriber row, two success
\* responses and two welcomes to that email, no callback running.
C11_Witness ==
    /\ running = 0
    /\ Len(email_subscribers) = 1
    /\ Cardinality(NewsletterSuccesses) = 2
    /\ Cardinality(WelcomeMails) = 2
    /\ \A m \in WelcomeMails : mails[m].to = email_subscribers[1].email

====
